---- MODULE Spec2Model ----
(***************************************************************************)
(* A model of the 2D FDTD simulation engine (main.simulation.simulation).  *)
(*                                                                         *)
(* Floating point values are modelled as fixed-point integers: the real    *)
(* number v is the integer v * Q, products and quotients round towards     *)
(* minus infinity.  numpy arrays are modelled as a shape and a flat        *)
(* C-ordered buffer, slices clip as numpy slices do, element-wise          *)
(* expressions broadcast as numpy broadcasts and raise when the shapes do  *)
(* not fit.  An operation that raises keeps the assignments it made before *)
(* the exception.                                                          *)
(***************************************************************************)
EXTENDS Integers, Sequences, FiniteSets, TLC

(***************************************************************************)
(* Bounds of the model.                                                    *)
(***************************************************************************)
Q == 8                  \* fixed-point resolution: 1.0 is the integer Q
MaxGrid == 4            \* grid dimensions range over 3..MaxGrid
max_time_steps == 2     \* the constructor's max_time_steps
MaxFrames == 3          \* simulate_frame is not called past this frame
MaxItems == 2           \* entities (uuids) created in one run
MaxEdits == 1           \* inspector edits made in one run
MaxSets == 2            \* parameter setter calls made in one run
MaxJobs == 2            \* SimulationJob threads created in one run

(***************************************************************************)
(* Fixed-point arithmetic.                                                 *)
(***************************************************************************)
FromInt(n) == n * Q
FMul(x, y) == (x * y) \div Q
FDiv(x, y) == IF y > 0 THEN (x * Q) \div y ELSE ((0 - x) * Q) \div (0 - y)
Trunc(x) == x \div Q                  \* int(x) of a non-negative float
Min(m, n) == IF m < n THEN m ELSE n
Max(m, n) == IF m > n THEN m ELSE n

RECURSIVE FPow(_, _)
FPow(x, n) == IF n = 0 THEN FromInt(1) ELSE FMul(FPow(x, n - 1), x)

ISqrt(n) == CHOOSE r \in 0..n : r * r <= n /\ (r + 1) * (r + 1) > n
FSqrt(x) == ISqrt(x * Q)

(***************************************************************************)
(* Module constants of simulation.py, in normalised units.                 *)
(***************************************************************************)
MU_0 == FromInt(1)
EPS_0 == FromInt(2)
ETA == FSqrt(FDiv(MU_0, EPS_0))
C == FDiv(FromInt(1), FSqrt(FMul(EPS_0, MU_0)))
S == FDiv(FromInt(1), FSqrt(FromInt(2)))
DEFAULT_DX == FromInt(1)
calculate_auto_dt(x) == FDiv(FMul(S, x), C)
DEFAULT_DT == calculate_auto_dt(DEFAULT_DX)

(***************************************************************************)
(* numpy arrays: [r, c] is the shape, d the flat C-ordered buffer.  A      *)
(* buffer is written as  [k \in 1..n |-> e] \o <<>> : the concatenation    *)
(* leaves the value alone and keeps it an explicit tuple.                  *)
(***************************************************************************)
Full(rows, cols, v) ==
    [r |-> rows, c |-> cols, d |-> [k \in 1..(rows * cols) |-> v] \o <<>>]
Zeros(rows, cols) == Full(rows, cols, 0)
InBounds(A, i, j) == i >= 0 /\ i < A.r /\ j >= 0 /\ j < A.c
At(A, i, j) == A.d[i * A.c + j + 1]
Cells(A) == {<<i, j>> : i \in 0..(A.r - 1), j \in 0..(A.c - 1)}
AllZero(A) == \A k \in 1..Len(A.d) : A.d[k] = 0
SetAt(A, i, j, v) == [A EXCEPT !.d[i * A.c + j + 1] = v]
Transpose(A) ==
    [r |-> A.c, c |-> A.r,
     d |-> [k \in 1..(A.r * A.c) |-> At(A, (k - 1) % A.r, (k - 1) \div A.r)] \o <<>>]

\* ndarray.resize(shape) in place: the flat buffer is kept, cut or padded
\* with zeros, and read again in C order under the new shape.
Resize(A, rows, cols) ==
    [r |-> rows, c |-> cols,
     d |-> [k \in 1..(rows * cols) |-> IF k <= Len(A.d) THEN A.d[k] ELSE 0] \o <<>>]

\* a[start:stop] on an axis of length n: the clipped bounds (a negative
\* bound counts from the end).
SliceLo(start, n) == IF start < 0 THEN Max(start + n, 0) ELSE Min(start, n)
SliceHi(stop, n) == IF stop < 0 THEN Max(stop + n, 0) ELSE Min(stop, n)
SliceLen(start, stop, n) == Max(SliceHi(stop, n) - SliceLo(start, n), 0)

\* An operand of an element-wise expression: the view A[r0:r1, c0:c1] of
\* shape (r, c), whose element (0, 0) is A[lr, lc]; w is the row length of
\* the buffer d it reads.
Slice(A, r0, r1, c0, c1) ==
    [r |-> SliceLen(r0, r1, A.r), c |-> SliceLen(c0, c1, A.c),
     lr |-> SliceLo(r0, A.r), lc |-> SliceLo(c0, A.c), w |-> A.c, d |-> A.d]
\* s[:, None] and s[None, :] as operands
Column(s) == [r |-> Len(s), c |-> 1, lr |-> 0, lc |-> 0, w |-> 1, d |-> s]
Row(s) == [r |-> 1, c |-> Len(s), lr |-> 0, lc |-> 0, w |-> Len(s), d |-> s]

\* numpy's broadcasting rule on one axis: the lengths of all operands are
\* equal or 1; the result has the length that is not 1.  -1: the operands
\* do not fit and the expression raises ValueError.
BroadcastDim(lengths) ==
    LET other == lengths \ {1}
    IN  IF other = {} THEN 1
        ELSE IF Cardinality(other) = 1 THEN CHOOSE n \in other : TRUE
        ELSE 0 - 1
BIdx(m, i) == IF m = 1 THEN 0 ELSE i
\* element (i, j) of the operand o broadcast to the shape of the expression
Elem(o, i, j) == o.d[(o.lr + BIdx(o.r, i)) * o.w + o.lc + BIdx(o.c, j) + 1]
\* the value of an expression that raised
Raised == [ok |-> FALSE, r |-> 0, c |-> 0, d |-> <<>>]

\* A[r0:r1, c0:c1] = V : V must broadcast to the shape of the target.
AssignOk(A, r0, r1, c0, c1, V) ==
    /\ V.ok
    /\ V.r = SliceLen(r0, r1, A.r) \/ V.r = 1
    /\ V.c = SliceLen(c0, c1, A.c) \/ V.c = 1
Assign(A, r0, r1, c0, c1, V) ==
    LET lr == SliceLo(r0, A.r)
        lc == SliceLo(c0, A.c)
        hr == SliceHi(r1, A.r)
        hc == SliceHi(c1, A.c)
    IN  [A EXCEPT !.d = [k \in 1..Len(A.d) |->
            LET i == (k - 1) \div A.c
                j == (k - 1) % A.c
            IN  IF i >= lr /\ i < hr /\ j >= lc /\ j < hc
                THEN At(V, BIdx(V.r, i - lr), BIdx(V.c, j - lc))
                ELSE A.d[k]] \o <<>>]
\* the statement A[r0:r1, c0:c1] = V: [ok, a], with A left alone when it raises
AssignStep(A, r0, r1, c0, c1, V) ==
    IF AssignOk(A, r0, r1, c0, c1, V)
    THEN [ok |-> TRUE, a |-> Assign(A, r0, r1, c0, c1, V)]
    ELSE [ok |-> FALSE, a |-> A]
\* A[r0:r1, c0:c1] = v for a scalar v
Fill(A, r0, r1, c0, c1, v) ==
    Assign(A, r0, r1, c0, c1, [ok |-> TRUE, r |-> 1, c |-> 1, d |-> <<v>>])

(***************************************************************************)
(* Input domains.                                                          *)
(***************************************************************************)
GridSizes == 3..MaxGrid
DxVals == {FromInt(1), FromInt(2)}
DtVals == {FromInt(1), FromInt(2)}
\* reflectivity is held as its decimal exponent: -2 stands for 1e-2
Reflectivities == {-1, -2}
Orders == {1, 2}
Uuids == 1..MaxItems
Jobs == 1..MaxJobs
UnknownIds == {0}                           \* uuids the engine never issued
Positions == {FromInt(0), FromInt(1) + Q \div 2, FromInt(2)}
Extents == {FromInt(1), FromInt(2)}
Permittivities == {FromInt(5), FromInt(7)}

(***************************************************************************)
(* The engine's state (Simulation.__init__, lines 36-58).                  *)
(***************************************************************************)
VARIABLES
    dt, dx, grid_size_x, grid_size_y,
    pml_reflectivity, pml_layers, pml_order,
    current_frame,
    ez, hx, hy, ae, am,
    time_array, pml_profile,
    sources, objects, sensors,          \* dicts: sequences in insertion order
    needs_allowance_arrays_update,
    next_uuid,                          \* uuid.uuid4(): a fresh id each call
    frame_calls,                        \* simulate_frame calls since __init__ or reset
    edits,                              \* inspector edits so far
    set_calls,                          \* parameter setter calls so far
    placed,                             \* ids of the objects place() was called
                                        \* on, the most recent call last
    last,                               \* the last call: its name and outcome
    \* SimulationJob (simulation_job.py), one entry per job created
    is_running,                         \* _is_running
    previous_frame_processed_event,     \* the threading.Event: TRUE when set
    pc,                                 \* where the job's thread is in run()
    started,                            \* simulate_frame calls the thread made
    completed,                          \* ... that returned
    emitted,                            \* frame_ready signals the thread emitted
    acks,                               \* notify_frame_processed calls received
    \* the main window (__main__.py)
    simulation_job,                     \* the current job, 0 for None
    frame_ready_queue                   \* frame_ready signals queued to the window

engine == <<dt, dx, grid_size_x, grid_size_y, pml_reflectivity, pml_layers,
            pml_order, current_frame, ez, hx, hy, ae, am, time_array,
            pml_profile, sources, objects, sensors,
            needs_allowance_arrays_update>>
job == <<is_running, previous_frame_processed_event, pc, started, completed,
         emitted, acks, simulation_job, frame_ready_queue>>
vars == <<engine, next_uuid, frame_calls, edits, set_calls, placed, last, job>>

\* dict helpers: a dict is a sequence of entries, each with its key in .id
Ids(dict) == {dict[k].id : k \in 1..Len(dict)}
Lookup(dict, id) == dict[CHOOSE k \in 1..Len(dict) : dict[k].id = id]
Pop(dict, id) == SelectSeq(dict, LAMBDA e : e.id # id)
Put(dict, entry) ==
    [k \in 1..Len(dict) |-> IF dict[k].id = entry.id THEN entry ELSE dict[k]]

(***************************************************************************)
(* Box.place / Box.erase (objects/box.py).                                 *)
(***************************************************************************)
pos_x_int(e) == Trunc(e.pos_x)
pos_y_int(e) == Trunc(e.pos_y)
width_int(obj) == Trunc(obj.width)
height_int(obj) == Trunc(obj.height)

\* the cells array[pos_x_int:pos_x_int + width_int, pos_y_int:pos_y_int + height_int]
BoxFill(A, obj, v) ==
    Fill(A, pos_x_int(obj), pos_x_int(obj) + width_int(obj),
            pos_y_int(obj), pos_y_int(obj) + height_int(obj), v)
PlaceE(A, obj) == BoxFill(A, obj, obj.permittivity)
PlaceM(A, obj) == BoxFill(A, obj, obj.permeability)
EraseE(A, obj, default_permittivity) == BoxFill(A, obj, default_permittivity)
EraseM(A, obj, default_permeability) == BoxFill(A, obj, default_permeability)

(***************************************************************************)
(* Material Grid helpers of the engine.                                    *)
(***************************************************************************)
BackgroundE(t, x) == FDiv(t, FMul(x, EPS_0))      \* dt / (dx * EPS_0)
BackgroundM(t, x) == FDiv(t, FMul(x, MU_0))       \* dt / (dx * MU_0)

\* _update_object with the two calls in the other order: place, then erase
UpdateObjectE_EraseLast(A, obj, erase_old, t, x) ==
    IF erase_old THEN EraseE(PlaceE(A, obj), obj, BackgroundE(t, x)) ELSE PlaceE(A, obj)

\* _update_object on one array
UpdateObjectE(A, obj, erase_old, t, x) ==
    PlaceE(IF erase_old THEN EraseE(A, obj, BackgroundE(t, x)) ELSE A, obj)
UpdateObjectM(A, obj, erase_old, t, x) ==
    PlaceM(IF erase_old THEN EraseM(A, obj, BackgroundM(t, x)) ELSE A, obj)

\* _update_objects: every object of the dict, in insertion order
RECURSIVE UpdateObjectsE(_, _, _, _, _)
UpdateObjectsE(A, objs, erase_old, t, x) ==
    IF objs = <<>> THEN A
    ELSE UpdateObjectsE(UpdateObjectE(A, Head(objs), erase_old, t, x),
                        Tail(objs), erase_old, t, x)
RECURSIVE UpdateObjectsM(_, _, _, _, _)
UpdateObjectsM(A, objs, erase_old, t, x) ==
    IF objs = <<>> THEN A
    ELSE UpdateObjectsM(UpdateObjectM(A, Head(objs), erase_old, t, x),
                        Tail(objs), erase_old, t, x)

\* _update_allowance_arrays followed by _update_objects(erase_old=False)
RebuiltE(nx, ny, t, x, objs) ==
    UpdateObjectsE(Full(nx, ny, BackgroundE(t, x)), objs, FALSE, t, x)
RebuiltM(nx, ny, t, x, objs) ==
    UpdateObjectsM(Full(nx, ny, BackgroundM(t, x)), objs, FALSE, t, x)

(***************************************************************************)
(* _regenerate_time_array and the sources' data.                           *)
(***************************************************************************)
Linspace(lo, hi, n) ==
    [k \in 1..n |-> IF n = 1 THEN lo ELSE lo + (k - 1) * ((hi - lo) \div (n - 1))] \o <<>>
\* a time basis of one entry more than max_time_steps
TimeArray_OneMore(t) ==
    LET ls == Linspace((0 - 30) * t, 30 * t, max_time_steps + 1)
    IN  [k \in 1..(max_time_steps + 1) |-> 0 - ls[k]] \o <<>>
TimeArray(t) ==
    LET ls == Linspace((0 - 30) * t, 30 * t, max_time_steps)
    IN  [k \in 1..max_time_steps |-> 0 - ls[k]] \o <<>>

TwoPi == FromInt(628) \div 100
\* np.sin, on eight points of the period
Sin(x) ==
    LET octant == ((x % TwoPi) * 8) \div TwoPi
        diag == FromInt(7) \div 10
    IN  CASE octant \in {0, 4} -> 0
          [] octant \in {1, 3} -> diag
          [] octant = 2 -> FromInt(1)
          [] octant \in {5, 7} -> 0 - diag
          [] OTHER -> 0 - FromInt(1)
\* source.calculate_data(time_array): sin(2 pi f t) over the time basis
CalculateData(source, times) ==
    [source EXCEPT !.data =
        [k \in 1..Len(times) |-> Sin(FMul(FMul(TwoPi, source.frequency), times[k]))]
        \o <<>>]
\* a recalculation that leaves every series as it is
RecalculateSourcesData_Skipped(srcs, times) == srcs
\* _recalculate_sources_data
RecalculateSourcesData(srcs, times) ==
    [k \in 1..Len(srcs) |-> CalculateData(srcs[k], times)]

(***************************************************************************)
(* _regenerate_pml_profile.                                                *)
(***************************************************************************)
SIGMA_BG == 2                             \* the 4e-4 background loss
LN10 == FromInt(23) \div 10
Log(refl) == refl * LN10                  \* np.log of 10 ** refl
HalfDt(t, s) == FMul(FMul(Q \div 2, t), s)      \* 0.5 * dt * s

SigmaMax(x, refl, layers, order) ==
    FDiv((0 - (order + 1)) * Log(refl), FMul(2 * ETA * layers, x))
\* lcp[i], i in 1..layers
Lcp(x, refl, layers, order) ==
    [i \in 1..layers |->
        FMul(FPow(FDiv(FromInt(i), FromInt(layers)), order),
             SigmaMax(x, refl, layers, order))] \o <<>>
Flip(s) == [i \in 1..Len(s) |-> s[Len(s) + 1 - i]] \o <<>>

\* A[r0:r1, c0:c1] += ramp
SliceSum(A, r0, r1, c0, c1, ramp) ==
    LET target == Slice(A, r0, r1, c0, c1)
        rows == BroadcastDim({target.r, ramp.r})
        cols == BroadcastDim({target.c, ramp.c})
    IN  IF rows < 0 \/ cols < 0 THEN Raised
        ELSE [ok |-> TRUE, r |-> rows, c |-> cols,
              d |-> [k \in 1..(rows * cols) |->
                        Elem(target, (k - 1) \div cols, (k - 1) % cols)
                        + Elem(ramp, (k - 1) \div cols, (k - 1) % cols)] \o <<>>]
AddInto(R, r0, r1, c0, c1, ramp) ==
    IF R.ok THEN AssignStep(R.a, r0, r1, c0, c1, SliceSum(R.a, r0, r1, c0, c1, ramp))
    ELSE R

\* lines 267-270, in order: the slice each statement adds to and the ramp
RampAdditions(nx, ny, layers, lcp) ==
    <<[r0 |-> 1, r1 |-> layers + 1, c0 |-> 0, c1 |-> ny, ramp |-> Column(Flip(lcp))],
      [r0 |-> 0 - layers, r1 |-> nx, c0 |-> 0, c1 |-> ny, ramp |-> Column(lcp)],
      [r0 |-> 0, r1 |-> nx, c0 |-> 1, c1 |-> layers + 1, ramp |-> Row(Flip(lcp))],
      [r0 |-> 0, r1 |-> nx, c0 |-> 0 - layers, c1 |-> ny, ramp |-> Row(lcp)]>>
RECURSIVE AddRamps(_, _)
AddRamps(R, additions) ==
    IF additions = <<>> THEN R
    ELSE AddRamps(AddInto(R, Head(additions).r0, Head(additions).r1,
                          Head(additions).c0, Head(additions).c1, Head(additions).ramp),
                  Tail(additions))

\* sigma after the four ramps are added (lines 262-270): [ok, a]; ok is
\* FALSE when np.ones or one of the additions raises
Sigma(nx, ny, x, refl, layers, order) ==
    IF nx < 0 \/ ny < 0 THEN [ok |-> FALSE, a |-> Zeros(0, 0)]
    ELSE AddRamps([ok |-> TRUE, a |-> Full(nx, ny, SIGMA_BG)],
                  RampAdditions(nx, ny, layers, Lcp(x, refl, layers, order)))

PMLProfile(nx, ny, t, x, refl, layers, order) ==
    LET sigma == Sigma(nx, ny, x, refl, layers, order).a
        CoefC(s) == FDiv(EPS_0 - HalfDt(t, s), EPS_0 + HalfDt(t, s))
        CoefD(s) == FDiv(FDiv(t, x), EPS_0 + HalfDt(t, s))
    IN  [data |-> Transpose(sigma),
         a |-> Full(nx, ny, FDiv(MU_0 - HalfDt(t, SIGMA_BG), MU_0 + HalfDt(t, SIGMA_BG))),
         b |-> Full(nx, ny, FDiv(FDiv(t, x), MU_0 + HalfDt(t, SIGMA_BG))),
         c |-> [sigma EXCEPT !.d = [k \in 1..Len(sigma.d) |-> CoefC(sigma.d[k])] \o <<>>],
         d |-> [sigma EXCEPT !.d = [k \in 1..Len(sigma.d) |-> CoefD(sigma.d[k])] \o <<>>]]
PMLOk(nx, ny, x, refl, layers, order) == Sigma(nx, ny, x, refl, layers, order).ok

(***************************************************************************)
(* Simulation.__init__: reset(), _regenerate_pml_profile(),                *)
(* _regenerate_time_array() on the constructor's arguments.                *)
(***************************************************************************)
ValidLayers(nx, ny) == 1..(Min(nx, ny) \div 2)

Init ==
    /\ dt = DEFAULT_DT
    /\ dx = DEFAULT_DX
    /\ grid_size_x \in GridSizes
    /\ grid_size_y \in GridSizes
    /\ pml_reflectivity = -2
    /\ pml_layers = 1
    /\ pml_order = 1
    /\ current_frame = 0
    /\ ez = Zeros(grid_size_x, grid_size_y)
    /\ hx = Zeros(grid_size_x, grid_size_y)
    /\ hy = Zeros(grid_size_x, grid_size_y)
    /\ ae = RebuiltE(grid_size_x, grid_size_y, dt, dx, <<>>)
    /\ am = RebuiltM(grid_size_x, grid_size_y, dt, dx, <<>>)
    /\ pml_profile = PMLProfile(grid_size_x, grid_size_y, dt, dx,
                                pml_reflectivity, pml_layers, pml_order)
    /\ time_array = TimeArray(dt)
    /\ sources = <<>>
    /\ objects = <<>>
    /\ sensors = <<>>
    /\ needs_allowance_arrays_update = FALSE
    /\ next_uuid = 1
    /\ frame_calls = 0
    /\ edits = 0
    /\ set_calls = 0
    /\ placed = <<>>
    /\ last = [op |-> "init", raised |-> FALSE, id |-> 0, invalid |-> FALSE]
    /\ is_running = [j \in Jobs |-> FALSE]
    /\ previous_frame_processed_event = [j \in Jobs |-> FALSE]
    /\ pc = [j \in Jobs |-> "none"]
    /\ started = [j \in Jobs |-> 0]
    /\ completed = [j \in Jobs |-> 0]
    /\ emitted = [j \in Jobs |-> 0]
    /\ acks = [j \in Jobs |-> 0]
    /\ simulation_job = 0
    /\ frame_ready_queue = 0

Called(name, id, raised) ==
    last' = [op |-> name, raised |-> raised, id |-> id, invalid |-> FALSE]
\* a setter called with an argument outside its domain
CalledInvalid(name, raised, invalid) ==
    last' = [op |-> name, raised |-> raised, id |-> 0, invalid |-> invalid]
\* a call of set_dx: use_auto_dt is the argument it was given
CalledSetDx(raised, invalid, use_auto_dt) ==
    last' = [op |-> "set_dx", raised |-> raised, id |-> 0, invalid |-> invalid,
             use_auto_dt |-> use_auto_dt]
\* a call of simulate_frame: error names the exception it raised, "" for none
Stepped(error) ==
    last' = [op |-> "simulate_frame", raised |-> error # "", id |-> 0,
             invalid |-> FALSE, error |-> error]
\* placed after place() was called on every object of objs, in order
KeysOf(dict) == [k \in 1..Len(dict) |-> dict[k].id]
PlacedAll(objs) == KeysOf(objs)
PlacedOne(order, id) == SelectSeq(order, LAMBDA i : i # id) \o <<id>>

\* a reset that also allocates the sensors' buffers anew
reset_clearing_sensor_data ==
    /\ current_frame' = 0
    /\ ez' = Zeros(grid_size_x, grid_size_y)
    /\ hx' = Zeros(grid_size_x, grid_size_y)
    /\ hy' = Zeros(grid_size_x, grid_size_y)
    /\ ae' = RebuiltE(grid_size_x, grid_size_y, dt, dx, objects)
    /\ am' = RebuiltM(grid_size_x, grid_size_y, dt, dx, objects)
    /\ sensors' = [k \in 1..Len(sensors) |->
                      [sensors[k] EXCEPT !.data = [n \in 1..max_time_steps |-> 0]]]
    /\ frame_calls' = 0
    /\ placed' = PlacedAll(objects)
    /\ Called("reset", 0, FALSE)
    /\ UNCHANGED <<set_calls, edits, dt, dx, grid_size_x, grid_size_y, pml_reflectivity,
                   pml_layers, pml_order, time_array, pml_profile, sources, objects,
                   needs_allowance_arrays_update, next_uuid>>

(***************************************************************************)
(* reset (lines 169-178).                                                  *)
(***************************************************************************)
reset ==
    /\ current_frame' = 0
    /\ ez' = Zeros(grid_size_x, grid_size_y)
    /\ hx' = Zeros(grid_size_x, grid_size_y)
    /\ hy' = Zeros(grid_size_x, grid_size_y)
    /\ ae' = RebuiltE(grid_size_x, grid_size_y, dt, dx, objects)
    /\ am' = RebuiltM(grid_size_x, grid_size_y, dt, dx, objects)
    /\ frame_calls' = 0
    /\ placed' = PlacedAll(objects)
    /\ Called("reset", 0, FALSE)
    /\ UNCHANGED <<set_calls, edits, dt, dx, grid_size_x, grid_size_y, pml_reflectivity,
                   pml_layers, pml_order, time_array, pml_profile, sources, objects,
                   sensors, needs_allowance_arrays_update, next_uuid>>

(***************************************************************************)
(* Entity management (lines 180-220).                                      *)
(***************************************************************************)
add_source(source) ==
    /\ next_uuid <= MaxItems
    /\ sources' = Append(sources, [CalculateData(source, time_array) EXCEPT !.id = next_uuid])
    /\ next_uuid' = next_uuid + 1
    /\ Called("add_source", next_uuid, FALSE)
    /\ UNCHANGED <<job, set_calls, frame_calls, edits, placed, dt, dx, grid_size_x, grid_size_y, pml_reflectivity, pml_layers,
                   pml_order, current_frame, ez, hx, hy, ae, am, time_array,
                   pml_profile, objects, sensors, needs_allowance_arrays_update>>

add_sensor(sensor) ==
    /\ next_uuid <= MaxItems
    /\ sensors' = Append(sensors, [sensor EXCEPT !.id = next_uuid,
                                   !.data = [k \in 1..max_time_steps |-> 0]])
    /\ next_uuid' = next_uuid + 1
    /\ Called("add_sensor", next_uuid, FALSE)
    /\ UNCHANGED <<job, set_calls, frame_calls, edits, placed, dt, dx, grid_size_x, grid_size_y, pml_reflectivity, pml_layers,
                   pml_order, current_frame, ez, hx, hy, ae, am, time_array,
                   pml_profile, sources, objects, needs_allowance_arrays_update>>

update_source(source_id) ==
    /\ sources' = IF source_id \in Ids(sources)
                  THEN Put(sources, CalculateData(Lookup(sources, source_id), time_array))
                  ELSE sources
    /\ Called("update_source", source_id, FALSE)
    /\ UNCHANGED <<job, set_calls, frame_calls, edits, placed, dt, dx, grid_size_x, grid_size_y, pml_reflectivity, pml_layers,
                   pml_order, current_frame, ez, hx, hy, ae, am, time_array,
                   pml_profile, objects, sensors, needs_allowance_arrays_update,
                   next_uuid>>

update_object(object_id) ==
    /\ IF object_id \in Ids(objects)
       THEN /\ ae' = UpdateObjectE(ae, Lookup(objects, object_id), TRUE, dt, dx)
            /\ am' = UpdateObjectM(am, Lookup(objects, object_id), TRUE, dt, dx)
       ELSE UNCHANGED <<job, ae, am>>
    /\ placed' = IF object_id \in Ids(objects) THEN PlacedOne(placed, object_id)
                 ELSE placed
    /\ Called("update_object", object_id, FALSE)
    /\ UNCHANGED <<job, set_calls, frame_calls, edits, dt, dx, grid_size_x, grid_size_y, pml_reflectivity, pml_layers,
                   pml_order, current_frame, ez, hx, hy, time_array, pml_profile,
                   sources, objects, sensors, needs_allowance_arrays_update,
                   next_uuid>>

remove_source(source_id) ==
    /\ sources' = Pop(sources, source_id)
    /\ Called("remove_source", source_id, FALSE)
    /\ UNCHANGED <<job, set_calls, frame_calls, edits, placed, dt, dx, grid_size_x, grid_size_y, pml_reflectivity, pml_layers,
                   pml_order, current_frame, ez, hx, hy, ae, am, time_array,
                   pml_profile, objects, sensors, needs_allowance_arrays_update,
                   next_uuid>>

\* a remove_object whose pop has no default: an unknown id raises KeyError
remove_object_strict(object_id) ==
    /\ objects' = Pop(objects, object_id)
    /\ IF object_id \in Ids(objects)
       THEN /\ ae' = EraseE(ae, Lookup(objects, object_id), BackgroundE(dt, dx))
            /\ am' = EraseM(am, Lookup(objects, object_id), BackgroundM(dt, dx))
       ELSE UNCHANGED <<job, ae, am>>
    /\ placed' = SelectSeq(placed, LAMBDA i : i # object_id)
    /\ Called("remove_object", object_id, object_id \notin Ids(objects))
    /\ UNCHANGED <<job, set_calls, frame_calls, edits, dt, dx, grid_size_x, grid_size_y,
                   pml_reflectivity, pml_layers, pml_order, current_frame, ez, hx, hy,
                   time_array, pml_profile, sources, sensors,
                   needs_allowance_arrays_update, next_uuid>>

remove_object(object_id) ==
    /\ objects' = Pop(objects, object_id)
    /\ IF object_id \in Ids(objects)
       THEN /\ ae' = EraseE(ae, Lookup(objects, object_id), BackgroundE(dt, dx))
            /\ am' = EraseM(am, Lookup(objects, object_id), BackgroundM(dt, dx))
       ELSE UNCHANGED <<job, ae, am>>
    /\ placed' = SelectSeq(placed, LAMBDA i : i # object_id)
    /\ Called("remove_object", object_id, FALSE)
    /\ UNCHANGED <<job, set_calls, frame_calls, edits, dt, dx, grid_size_x, grid_size_y, pml_reflectivity, pml_layers,
                   pml_order, current_frame, ez, hx, hy, time_array, pml_profile,
                   sources, sensors, needs_allowance_arrays_update, next_uuid>>

add_object(obj) ==
    /\ next_uuid <= MaxItems
    /\ needs_allowance_arrays_update' = TRUE
    /\ objects' = Append(objects, [obj EXCEPT !.id = next_uuid])
    /\ next_uuid' = next_uuid + 1
    /\ Called("add_object", next_uuid, FALSE)
    /\ UNCHANGED <<job, set_calls, frame_calls, edits, placed, dt, dx, grid_size_x, grid_size_y, pml_reflectivity, pml_layers,
                   pml_order, current_frame, ez, hx, hy, ae, am, time_array,
                   pml_profile, sources, sensors>>

(***************************************************************************)
(* The object inspector's callbacks (widgets/object_inspector.py): they    *)
(* write a field of the object the engine holds and only emit a signal.    *)
(***************************************************************************)
ObjectFields == {"pos_x", "pos_y", "width", "height", "permittivity", "permeability"}
FieldValues(field) ==
    CASE field \in {"pos_x", "pos_y"} -> Positions
      [] field \in {"width", "height"} -> Extents
      [] OTHER -> Permittivities
SetField(obj, field, v) ==
    CASE field = "pos_x" -> [obj EXCEPT !.pos_x = v]
      [] field = "pos_y" -> [obj EXCEPT !.pos_y = v]
      [] field = "width" -> [obj EXCEPT !.width = v]
      [] field = "height" -> [obj EXCEPT !.height = v]
      [] field = "permittivity" -> [obj EXCEPT !.permittivity = v]
      [] OTHER -> [obj EXCEPT !.permeability = v]
object_input_changed_cb(object_id, field, v) ==
    /\ object_id \in Ids(objects)
    /\ edits < MaxEdits
    /\ edits' = edits + 1
    /\ objects' = Put(objects, SetField(Lookup(objects, object_id), field, v))
    /\ objects' # objects
    /\ Called("object_input_changed_cb", object_id, FALSE)
    /\ UNCHANGED <<job, set_calls, frame_calls, placed, dt, dx, grid_size_x, grid_size_y, pml_reflectivity, pml_layers,
                   pml_order, current_frame, ez, hx, hy, ae, am, time_array,
                   pml_profile, sources, sensors, needs_allowance_arrays_update,
                   next_uuid>>

(***************************************************************************)
(* The source inspector's frequency callback (widgets/source_inspector.py  *)
(* lines 65-69): it writes the frequency of the source the engine holds    *)
(* and only emits a signal; the data series is left as it is.              *)
(***************************************************************************)
Frequencies == {2, 3}
source_frequency_input_changed_cb(source_id, new_value) ==
    /\ source_id \in Ids(sources)
    /\ edits < MaxEdits
    /\ edits' = edits + 1
    /\ sources' = Put(sources, [Lookup(sources, source_id) EXCEPT !.frequency = new_value])
    /\ sources' # sources
    /\ Called("source_frequency_input_changed_cb", source_id, FALSE)
    /\ UNCHANGED <<job, set_calls, frame_calls, placed, dt, dx, grid_size_x, grid_size_y,
                   pml_reflectivity, pml_layers, pml_order, current_frame, ez, hx, hy,
                   ae, am, time_array, pml_profile, objects, sensors,
                   needs_allowance_arrays_update, next_uuid>>

(***************************************************************************)
(* simulate_frame (lines 222-250).                                         *)
(*   n1 = n11 = 1, n2 = grid_size_y - 1, n21 = grid_size_x - 1             *)
(*   idx1 = [n1:n2, n11:n21], idx2 = [n1 + 1:n2 + 1, n11 + 1:n21 + 1]      *)
(***************************************************************************)
Idx1(A, gx, gy) == Slice(A, 1, gy - 1, 1, gx - 1)
Idx2(A, gx, gy) == Slice(A, 2, gy, 2, gx)

\* the right-hand side of line 236:
\*   pml_a * hy[idx1] + pml_b * am[idx1] * (ez[n1+1:n2+1, n11:n21] - ez[idx1])
HyValue(hyA, ezA, amA, prof, gx, gy) ==
    LET a == Idx1(prof.a, gx, gy)
        b == Idx1(prof.b, gx, gy)
        h == Idx1(hyA, gx, gy)
        m == Idx1(amA, gx, gy)
        e1 == Slice(ezA, 2, gy, 1, gx - 1)
        e0 == Idx1(ezA, gx, gy)
        rows == BroadcastDim({a.r, h.r, b.r, m.r, e1.r, e0.r})
        cols == BroadcastDim({a.c, h.c, b.c, m.c, e1.c, e0.c})
    IN  IF rows < 0 \/ cols < 0 THEN Raised
        ELSE [ok |-> TRUE, r |-> rows, c |-> cols,
              d |-> [k \in 1..(rows * cols) |->
                        LET i == (k - 1) \div cols
                            j == (k - 1) % cols
                        IN  FMul(Elem(a, i, j), Elem(h, i, j))
                            + FMul(FMul(Elem(b, i, j), Elem(m, i, j)),
                                   Elem(e1, i, j) - Elem(e0, i, j))] \o <<>>]
\* the right-hand side of line 237:
\*   pml_a * hx[idx1] - pml_b * am[idx1] * (ez[n1:n2, n11+1:n21+1] - ez[idx1])
HxValue(hxA, ezA, amA, prof, gx, gy) ==
    LET a == Idx1(prof.a, gx, gy)
        b == Idx1(prof.b, gx, gy)
        h == Idx1(hxA, gx, gy)
        m == Idx1(amA, gx, gy)
        e1 == Slice(ezA, 1, gy - 1, 2, gx)
        e0 == Idx1(ezA, gx, gy)
        rows == BroadcastDim({a.r, h.r, b.r, m.r, e1.r, e0.r})
        cols == BroadcastDim({a.c, h.c, b.c, m.c, e1.c, e0.c})
    IN  IF rows < 0 \/ cols < 0 THEN Raised
        ELSE [ok |-> TRUE, r |-> rows, c |-> cols,
              d |-> [k \in 1..(rows * cols) |->
                        LET i == (k - 1) \div cols
                            j == (k - 1) % cols
                        IN  FMul(Elem(a, i, j), Elem(h, i, j))
                            - FMul(FMul(Elem(b, i, j), Elem(m, i, j)),
                                   Elem(e1, i, j) - Elem(e0, i, j))] \o <<>>]
\* the right-hand side of line 238:
\*   c[idx2] * ez[idx2] + d[idx2] * ae[idx2]
\*     * (hy[idx2] - hy[n1:n2, n11+1:n21+1] - hx[idx2] + hx[n1+1:n2+1, n11:n21])
EzValue(ezA, hxA, hyA, aeA, prof, gx, gy) ==
    LET c == Idx2(prof.c, gx, gy)
        d == Idx2(prof.d, gx, gy)
        e == Idx2(ezA, gx, gy)
        m == Idx2(aeA, gx, gy)
        hy2 == Idx2(hyA, gx, gy)
        hy1 == Slice(hyA, 1, gy - 1, 2, gx)
        hx2 == Idx2(hxA, gx, gy)
        hx1 == Slice(hxA, 2, gy, 1, gx - 1)
        rows == BroadcastDim({c.r, e.r, d.r, m.r, hy2.r, hy1.r, hx2.r, hx1.r})
        cols == BroadcastDim({c.c, e.c, d.c, m.c, hy2.c, hy1.c, hx2.c, hx1.c})
    IN  IF rows < 0 \/ cols < 0 THEN Raised
        ELSE [ok |-> TRUE, r |-> rows, c |-> cols,
              d |-> [k \in 1..(rows * cols) |->
                        LET i == (k - 1) \div cols
                            j == (k - 1) % cols
                        IN  FMul(Elem(c, i, j), Elem(e, i, j))
                            + FMul(FMul(Elem(d, i, j), Elem(m, i, j)),
                                   Elem(hy2, i, j) - Elem(hy1, i, j)
                                   - Elem(hx2, i, j) + Elem(hx1, i, j))] \o <<>>]

\* the cell of Ez a source writes (line 242)
SourceCell(source) == <<pos_y_int(source), pos_x_int(source)>>
\* the cell of Ez a sensor reads (line 247, sensor.pos_int)
SensorCell(sensor) == <<pos_x_int(sensor), pos_y_int(sensor)>>

\* lines 241-242: [ok, ez]; ok is FALSE when an index is out of range
RECURSIVE InjectSources(_, _, _)
InjectSources(ezA, srcs, frame) ==
    IF srcs = <<>> THEN [ok |-> TRUE, ez |-> ezA]
    ELSE LET cell == SourceCell(Head(srcs))
         IN  IF frame + 1 <= Len(Head(srcs).data) /\ InBounds(ezA, cell[1], cell[2])
             THEN InjectSources(SetAt(ezA, cell[1], cell[2], Head(srcs).data[frame + 1]),
                                Tail(srcs), frame)
             ELSE [ok |-> FALSE, ez |-> ezA]

\* lines 245-247: [ok, sensors]
RECURSIVE RecordSensors(_, _, _)
RecordSensors(sens, ezA, frame) ==
    IF sens = <<>> THEN [ok |-> TRUE, sensors |-> <<>>]
    ELSE LET cell == SensorCell(Head(sens))
         IN  IF frame + 1 <= Len(Head(sens).data) /\ InBounds(ezA, cell[1], cell[2])
             THEN LET rest == RecordSensors(Tail(sens), ezA, frame)
                  IN  [ok |-> rest.ok,
                       sensors |-> <<[Head(sens) EXCEPT
                                        !.data[frame + 1] = At(ezA, cell[1], cell[2])]>>
                                   \o rest.sensors]
             ELSE [ok |-> FALSE, sensors |-> sens]

\* a step that counts itself twice
NextFrame_Twice(frame) == frame + 2
\* the frame counter after a completed step (line 249)
NextFrame(frame) == frame + 1

\* a step that restores Hy, Hx and Ez when a frame index is out of range
simulate_frame_rolling_back ==
    /\ frame_calls < MaxFrames
    /\ frame_calls' = frame_calls + 1
    /\ \E hyS \in {AssignStep(hy, 1, grid_size_y - 1, 1, grid_size_x - 1,
                              HyValue(hy, ez, am, pml_profile, grid_size_x, grid_size_y))} :
       \E hxS \in {IF hyS.ok
                   THEN AssignStep(hx, 1, grid_size_y - 1, 1, grid_size_x - 1,
                                   HxValue(hx, ez, am, pml_profile, grid_size_x, grid_size_y))
                   ELSE [ok |-> FALSE, a |-> hx]} :
       \E ezS \in {IF hxS.ok
                   THEN AssignStep(ez, 2, grid_size_y, 2, grid_size_x,
                                   EzValue(ez, hxS.a, hyS.a, ae, pml_profile,
                                           grid_size_x, grid_size_y))
                   ELSE [ok |-> FALSE, a |-> ez]} :
       \E inj \in {IF ezS.ok THEN InjectSources(ezS.a, sources, current_frame)
                   ELSE [ok |-> FALSE, ez |-> ezS.a]} :
       \E rec \in {IF inj.ok THEN RecordSensors(sensors, inj.ez, current_frame)
                   ELSE [ok |-> FALSE, sensors |-> sensors]} :
          /\ hy' = IF rec.ok \/ ~ezS.ok THEN hyS.a ELSE hy
          /\ hx' = IF rec.ok \/ ~ezS.ok THEN hxS.a ELSE hx
          /\ ez' = IF rec.ok \/ ~ezS.ok THEN inj.ez ELSE ez
          /\ sensors' = rec.sensors
          /\ current_frame' = IF rec.ok THEN NextFrame(current_frame) ELSE current_frame
          /\ Stepped(IF ~ezS.ok THEN "ValueError"
                      ELSE IF ~rec.ok THEN "IndexError" ELSE "")
    /\ UNCHANGED <<set_calls, edits, placed, dt, dx, grid_size_x, grid_size_y,
                   pml_reflectivity, pml_layers, pml_order, ae, am, time_array,
                   pml_profile, sources, objects, needs_allowance_arrays_update,
                   next_uuid>>

\* The statements of simulate_frame in order; each is bound to the arrays
\* the statements before it left, and is skipped once one of them raised.
simulate_frame ==
    /\ frame_calls < MaxFrames
    /\ frame_calls' = frame_calls + 1
    /\ \E hyS \in {AssignStep(hy, 1, grid_size_y - 1, 1, grid_size_x - 1,
                              HyValue(hy, ez, am, pml_profile, grid_size_x, grid_size_y))} :
       \E hxS \in {IF hyS.ok
                   THEN AssignStep(hx, 1, grid_size_y - 1, 1, grid_size_x - 1,
                                   HxValue(hx, ez, am, pml_profile, grid_size_x, grid_size_y))
                   ELSE [ok |-> FALSE, a |-> hx]} :
       \E ezS \in {IF hxS.ok
                   THEN AssignStep(ez, 2, grid_size_y, 2, grid_size_x,
                                   EzValue(ez, hxS.a, hyS.a, ae, pml_profile,
                                           grid_size_x, grid_size_y))
                   ELSE [ok |-> FALSE, a |-> ez]} :
       \E inj \in {IF ezS.ok THEN InjectSources(ezS.a, sources, current_frame)
                   ELSE [ok |-> FALSE, ez |-> ezS.a]} :
       \E rec \in {IF inj.ok THEN RecordSensors(sensors, inj.ez, current_frame)
                   ELSE [ok |-> FALSE, sensors |-> sensors]} :
          /\ hy' = hyS.a
          /\ hx' = hxS.a
          /\ ez' = inj.ez
          /\ sensors' = rec.sensors
          /\ current_frame' = IF rec.ok THEN NextFrame(current_frame) ELSE current_frame
          /\ Stepped(IF ~ezS.ok THEN "ValueError"
                      ELSE IF ~rec.ok THEN "IndexError" ELSE "")
    /\ UNCHANGED <<set_calls, edits, placed, dt, dx, grid_size_x, grid_size_y,
                   pml_reflectivity, pml_layers, pml_order, ae, am, time_array,
                   pml_profile, sources, objects, needs_allowance_arrays_update,
                   next_uuid>>

(***************************************************************************)
(* Parameter setters (lines 112-167, 308-319).                             *)
(***************************************************************************)
\* set_dx: when _regenerate_pml_profile raises only _dx has been assigned
set_dx(v, use_auto_dt) ==
    LET ok == PMLOk(grid_size_x, grid_size_y, v, pml_reflectivity, pml_layers, pml_order)
        auto == ok /\ use_auto_dt
    IN  /\ dx' = v
        /\ pml_profile' = IF ok THEN PMLProfile(grid_size_x, grid_size_y, dt, v,
                                                pml_reflectivity, pml_layers, pml_order)
                          ELSE pml_profile
        /\ ae' = IF ok THEN RebuiltE(grid_size_x, grid_size_y, dt, v, objects) ELSE ae
        /\ am' = IF ok THEN RebuiltM(grid_size_x, grid_size_y, dt, v, objects) ELSE am
        /\ dt' = IF auto THEN calculate_auto_dt(v) ELSE dt
        /\ time_array' = IF auto THEN TimeArray(dt') ELSE time_array
        /\ sources' = IF auto THEN RecalculateSourcesData(sources, time_array') ELSE sources
        /\ placed' = IF ok THEN PlacedAll(objects) ELSE placed
        /\ set_calls < MaxSets
        /\ set_calls' = set_calls + 1
        /\ CalledSetDx(~ok, v <= 0, use_auto_dt)
        /\ UNCHANGED <<job, frame_calls, edits, grid_size_x, grid_size_y, pml_reflectivity,
                       pml_layers, pml_order, current_frame, ez, hx, hy, objects,
                       sensors, needs_allowance_arrays_update, next_uuid>>

\* set_dt -> _set_dt(dt, regenerate_pml=True)
set_dt(v) ==
    LET ok == PMLOk(grid_size_x, grid_size_y, dx, pml_reflectivity, pml_layers, pml_order)
    IN  /\ dt' = v
        /\ pml_profile' = IF ok THEN PMLProfile(grid_size_x, grid_size_y, v, dx,
                                                pml_reflectivity, pml_layers, pml_order)
                          ELSE pml_profile
        /\ time_array' = IF ok THEN TimeArray(v) ELSE time_array
        /\ sources' = IF ok THEN RecalculateSourcesData(sources, time_array') ELSE sources
        /\ set_calls < MaxSets
        /\ set_calls' = set_calls + 1
        /\ CalledInvalid("set_dt", ~ok, v <= 0)
        /\ UNCHANGED <<job, frame_calls, edits, placed, dx, grid_size_x, grid_size_y, pml_reflectivity,
                       pml_layers, pml_order, current_frame, ez, hx, hy, ae, am,
                       objects, sensors, needs_allowance_arrays_update, next_uuid>>

\* An optional argument is a sequence: None is <<>>, the value v is <<v>>.
None == <<>>
Some(values) == {<<v>> : v \in values}
OrElse(arg, default) == IF arg = None THEN default ELSE arg[1]

\* set_grid_size(x, y).  A negative dimension makes the first resize raise,
\* after the sizes were assigned.
set_grid_size(x, y) ==
    LET nx == OrElse(x, grid_size_x)
        ny == OrElse(y, grid_size_y)
        ok == nx >= 0 /\ ny >= 0
    IN  /\ grid_size_x' = nx
        /\ grid_size_y' = ny
        /\ hx' = IF ok THEN Resize(hx, nx, ny) ELSE hx
        /\ hy' = IF ok THEN Resize(hy, nx, ny) ELSE hy
        /\ ae' = IF ok THEN Resize(ae, nx, ny) ELSE ae
        /\ am' = IF ok THEN Resize(am, nx, ny) ELSE am
        /\ needs_allowance_arrays_update' = IF ok THEN TRUE ELSE needs_allowance_arrays_update
        /\ set_calls < MaxSets
        /\ set_calls' = set_calls + 1
        /\ CalledInvalid("set_grid_size", ~ok, nx <= 0 \/ ny <= 0)
        /\ UNCHANGED <<job, frame_calls, edits, placed, dt, dx, pml_reflectivity, pml_layers, pml_order,
                       current_frame, ez, time_array, pml_profile, sources, objects,
                       sensors, next_uuid>>

\* a set_pml_params that rebuilds the Material Grid too, as set_dx does
set_pml_params_updating_objects(reflectivity, layers, order) ==
    LET r == OrElse(reflectivity, pml_reflectivity)
        l == OrElse(layers, pml_layers)
        o == OrElse(order, pml_order)
        params_changed == <<reflectivity, layers, order>> # <<None, None, None>>
        ok == PMLOk(grid_size_x, grid_size_y, dx, r, l, o)
    IN  /\ pml_reflectivity' = r
        /\ pml_layers' = l
        /\ pml_order' = o
        /\ pml_profile' = IF params_changed /\ ok
                          THEN PMLProfile(grid_size_x, grid_size_y, dt, dx, r, l, o)
                          ELSE pml_profile
        /\ ae' = RebuiltE(grid_size_x, grid_size_y, dt, dx, objects)
        /\ am' = RebuiltM(grid_size_x, grid_size_y, dt, dx, objects)
        /\ set_calls < MaxSets
        /\ set_calls' = set_calls + 1
        /\ CalledInvalid("set_pml_params", params_changed /\ ~ok,
                         2 * l > Min(grid_size_x, grid_size_y))
        /\ UNCHANGED <<job, frame_calls, edits, placed, dt, dx, grid_size_x, grid_size_y,
                       current_frame, ez, hx, hy, time_array, sources, objects, sensors,
                       needs_allowance_arrays_update, next_uuid>>

\* set_pml_params(reflectivity, layers, order)
set_pml_params(reflectivity, layers, order) ==
    LET r == OrElse(reflectivity, pml_reflectivity)
        l == OrElse(layers, pml_layers)
        o == OrElse(order, pml_order)
        params_changed == <<reflectivity, layers, order>> # <<None, None, None>>
        ok == PMLOk(grid_size_x, grid_size_y, dx, r, l, o)
    IN  /\ pml_reflectivity' = r
        /\ pml_layers' = l
        /\ pml_order' = o
        /\ pml_profile' = IF params_changed /\ ok
                          THEN PMLProfile(grid_size_x, grid_size_y, dt, dx, r, l, o)
                          ELSE pml_profile
        /\ set_calls < MaxSets
        /\ set_calls' = set_calls + 1
        /\ CalledInvalid("set_pml_params", params_changed /\ ~ok,
                         2 * l > Min(grid_size_x, grid_size_y))
        /\ UNCHANGED <<job, frame_calls, edits, placed, dt, dx, grid_size_x, grid_size_y, current_frame,
                       ez, hx, hy, ae, am, time_array, sources, objects, sensors,
                       needs_allowance_arrays_update, next_uuid>>

(***************************************************************************)
(* SimulationJob (simulation_job.py) and the main window's callbacks that  *)
(* drive it (__main__.py).  pc[j] is where the thread of job j is:         *)
(*   "none"   the job is not created yet                                   *)
(*   "loop"   at the test of `while self._is_running` (line 28)            *)
(*   "wait"   in _previous_frame_processed_event.wait(timeout) (line 29)   *)
(*   "step"   in self._simulation.simulate_frame() (line 33)               *)
(*   "emit"   at self.frame_ready.emit (line 36)                           *)
(*   "clear"  at _previous_frame_processed_event.clear() (line 38)         *)
(*   "done"   run() returned                                               *)
(*   "died"   run() was left by the exception simulate_frame raised        *)
(* frame_ready is connected across threads: an emitted signal is queued    *)
(* and its slot runs later on the window's thread.                         *)
(***************************************************************************)
\* the jobs whose thread holds or is about to make a simulate_frame call
Stepping == {j \in Jobs : pc[j] \in {"wait", "step"}}
JobCalled(name, j) == Called(name, j, FALSE)
NotStepped == UNCHANGED <<engine, next_uuid, frame_calls, edits, set_calls, placed>>

\* SimulationJob.__init__ and start(): the flag is set, the event is set
Started(j) ==
    /\ is_running' = [is_running EXCEPT ![j] = TRUE]
    /\ previous_frame_processed_event' = [previous_frame_processed_event EXCEPT ![j] = TRUE]
    /\ pc' = [pc EXCEPT ![j] = "loop"]
\* SimulationJob.stop
Stopped(j) == is_running' = [is_running EXCEPT ![j] = FALSE]

\* line 28: the loop test.  A running thread makes no further iteration
\* once MaxFrames simulate_frame calls are made or under way.
job_loop(j) ==
    /\ pc[j] = "loop"
    /\ is_running[j] => frame_calls + Cardinality(Stepping) < MaxFrames
    /\ pc' = [pc EXCEPT ![j] = IF is_running[j] THEN "wait" ELSE "done"]
    /\ JobCalled("job_loop", j)
    /\ NotStepped
    /\ UNCHANGED <<is_running, previous_frame_processed_event, started, completed,
                   emitted, acks, simulation_job, frame_ready_queue>>

\* a wait whose result is ignored: the thread steps after the timeout too
job_wait_ignoring_event(j) ==
    /\ pc[j] = "wait"
    /\ pc' = [pc EXCEPT ![j] = "step"]
    /\ started' = [started EXCEPT ![j] = started[j] + 1]
    /\ JobCalled("job_wait", j)
    /\ NotStepped
    /\ UNCHANGED <<is_running, previous_frame_processed_event, completed, emitted,
                   acks, simulation_job, frame_ready_queue>>

\* lines 29-30: wait returns True when the event is set and the thread goes
\* on to call simulate_frame; it returns False after the timeout otherwise
job_wait(j) ==
    /\ pc[j] = "wait"
    /\ pc' = [pc EXCEPT ![j] = IF previous_frame_processed_event[j] THEN "step" ELSE "loop"]
    /\ started' = [started EXCEPT ![j] = IF previous_frame_processed_event[j]
                                         THEN started[j] + 1 ELSE started[j]]
    /\ JobCalled("job_wait", j)
    /\ NotStepped
    /\ UNCHANGED <<is_running, previous_frame_processed_event, completed, emitted,
                   acks, simulation_job, frame_ready_queue>>

\* line 33: the simulate_frame call; an exception ends run()
job_step(j) ==
    /\ pc[j] = "step"
    /\ simulate_frame
    /\ pc' = [pc EXCEPT ![j] = IF last'.raised THEN "died" ELSE "emit"]
    /\ completed' = [completed EXCEPT ![j] = IF last'.raised THEN completed[j]
                                             ELSE completed[j] + 1]
    /\ UNCHANGED <<is_running, previous_frame_processed_event, started, emitted,
                   acks, simulation_job, frame_ready_queue>>

\* line 36
job_emit(j) ==
    /\ pc[j] = "emit"
    /\ frame_ready_queue' = frame_ready_queue + 1
    /\ emitted' = [emitted EXCEPT ![j] = emitted[j] + 1]
    /\ pc' = [pc EXCEPT ![j] = "clear"]
    /\ JobCalled("job_emit", j)
    /\ NotStepped
    /\ UNCHANGED <<is_running, previous_frame_processed_event, started, completed,
                   acks, simulation_job>>

\* line 38
job_clear(j) ==
    /\ pc[j] = "clear"
    /\ previous_frame_processed_event' = [previous_frame_processed_event EXCEPT ![j] = FALSE]
    /\ pc' = [pc EXCEPT ![j] = "loop"]
    /\ JobCalled("job_clear", j)
    /\ NotStepped
    /\ UNCHANGED <<is_running, started, completed, emitted, acks, simulation_job,
                   frame_ready_queue>>

\* MainWindow._simulation_frame_ready_cb (__main__.py lines 447-457): the
\* slot of a queued frame_ready; it redraws and acknowledges to the current
\* job, if there is one (notify_frame_processed, simulation_job.py line 22)
simulation_frame_ready_cb ==
    /\ frame_ready_queue > 0
    /\ frame_ready_queue' = frame_ready_queue - 1
    /\ IF simulation_job # 0
       THEN /\ previous_frame_processed_event' =
                   [previous_frame_processed_event EXCEPT ![simulation_job] = TRUE]
            /\ acks' = [acks EXCEPT ![simulation_job] = acks[simulation_job] + 1]
       ELSE UNCHANGED <<previous_frame_processed_event, acks>>
    /\ Called("simulation_frame_ready_cb", simulation_job, FALSE)
    /\ NotStepped
    /\ UNCHANGED <<is_running, pc, started, completed, emitted, simulation_job>>

\* MainWindow._simulate_button_clicked_cb (__main__.py lines 522-531): stops
\* the current job, or creates and starts a new one
simulate_button_clicked_cb ==
    /\ IF simulation_job # 0
       THEN /\ Stopped(simulation_job)
            /\ simulation_job' = 0
            /\ UNCHANGED <<previous_frame_processed_event, pc>>
       ELSE \E j \in Jobs :
               /\ pc[j] = "none"
               /\ \A i \in Jobs : i < j => pc[i] # "none"
               /\ Started(j)
               /\ simulation_job' = j
    /\ Called("simulate_button_clicked_cb", simulation_job', FALSE)
    /\ NotStepped
    /\ UNCHANGED <<started, completed, emitted, acks, frame_ready_queue>>

\* MainWindow._clear_button_clicked_cb (__main__.py lines 441-444):
\* _stop_current_simulation_job(), then reset()
clear_button_clicked_cb ==
    /\ IF simulation_job # 0 THEN Stopped(simulation_job) ELSE UNCHANGED is_running
    /\ simulation_job' = 0
    /\ reset
    /\ UNCHANGED <<previous_frame_processed_event, pc, started, completed, emitted,
                   acks, frame_ready_queue>>

(***************************************************************************)
(* The callers' inputs.                                                    *)
(***************************************************************************)
Box(permittivity, permeability, x, y, width, height) ==
    [id |-> 0, permittivity |-> permittivity, permeability |-> permeability,
     pos_x |-> x, pos_y |-> y, width |-> width, height |-> height]
Boxes ==
    {Box(FromInt(5), FromInt(5), FromInt(0), FromInt(0), FromInt(2), FromInt(1)),
     Box(FromInt(7), FromInt(7), FromInt(1), FromInt(0), FromInt(1), FromInt(1))}
\* <<pos_x, pos_y>> of the sources and sensors added
PointPositions ==
    {<<FromInt(2), FromInt(2)>>, <<FromInt(0), FromInt(1) + Q \div 2>>}
SineSource(x, y, frequency) ==
    [id |-> 0, pos_x |-> x, pos_y |-> y, frequency |-> frequency, data |-> <<>>]
SineSources ==
    {SineSource(FromInt(2), FromInt(2), 3),
     SineSource(FromInt(0), FromInt(1) + Q \div 2, 2)}
Sensors ==
    {[id |-> 0, pos_x |-> p[1], pos_y |-> p[2], data |-> <<>>] : p \in PointPositions}
\* sources and sensors are added at positions inside the grid
InGrid(e) == pos_x_int(e) < grid_size_x /\ pos_y_int(e) < grid_size_y
AnyId == Uuids \cup UnknownIds

(***************************************************************************)
(* Specifications.                                                         *)
(***************************************************************************)
\* objects and the Material Grid
NextObjects ==
    \/ \E obj \in Boxes : add_object(obj)
    \/ \E id \in Uuids, field \in ObjectFields :
           \E v \in FieldValues(field) : object_input_changed_cb(id, field, v)
    \/ \E id \in AnyId : update_object(id)
    \/ \E id \in AnyId : remove_object(id)
    \/ reset /\ UNCHANGED job
SpecObjects == Init /\ [][NextObjects]_vars

\* stepping the fields with sources, sensors and objects registered
NextFrames ==
    \/ \E source \in SineSources : InGrid(source) /\ add_source(source)
    \/ \E sensor \in Sensors : InGrid(sensor) /\ add_sensor(sensor)
    \/ \E obj \in Boxes : add_object(obj)
    \/ \E id \in AnyId : update_source(id)
    \/ \E id \in AnyId : remove_source(id)
    \/ \E id \in AnyId : update_object(id)
    \/ \E id \in AnyId : remove_object(id)
    \/ simulate_frame /\ UNCHANGED job
    \/ reset /\ UNCHANGED job
SpecFrames == Init /\ [][NextFrames]_vars

\* resizing the grid with objects registered
NextResize ==
    \/ \E obj \in Boxes : add_object(obj)
    \/ \E v \in Some(GridSizes) : set_grid_size(v, None) \/ set_grid_size(None, v)
    \/ reset /\ UNCHANGED job
SpecResize == Init /\ [][NextResize]_vars

\* the parameter setters, called with valid arguments as the main window's
\* input callbacks call them (one grid dimension, one PML parameter a call)
NextParams ==
    \/ \E v \in DxVals, use_auto_dt \in BOOLEAN : set_dx(v, use_auto_dt)
    \/ \E v \in DtVals : set_dt(v)
    \/ \E v \in Some(GridSizes) : set_grid_size(v, None) \/ set_grid_size(None, v)
    \/ \E r \in Some(Reflectivities) : set_pml_params(r, None, None)
    \/ \E l \in Some(ValidLayers(grid_size_x, grid_size_y)) : set_pml_params(None, l, None)
    \/ \E o \in Some(Orders) : set_pml_params(None, None, o)
SpecParams == Init /\ [][NextParams]_vars

\* the setters called directly, with arguments outside their domains too
InvalidSteps == {0 - FromInt(1)}
InvalidGridSizes == {0, 0 - 1}
NextSetters ==
    \/ \E v \in DxVals \cup InvalidSteps, use_auto_dt \in BOOLEAN : set_dx(v, use_auto_dt)
    \/ \E v \in DtVals \cup InvalidSteps : set_dt(v)
    \/ \E v \in Some(GridSizes \cup InvalidGridSizes) :
           set_grid_size(v, None) \/ set_grid_size(None, v)
    \/ \E l \in Some(1..MaxGrid) : set_pml_params(None, l, None)
SpecSetters == Init /\ [][NextSetters]_vars

\* every operation of the engine, each with one argument, on registered
\* ids, with one setter call a run
NextEngine ==
    \/ add_source(SineSource(FromInt(2), FromInt(2), 3))
    \/ add_sensor([id |-> 0, pos_x |-> FromInt(2), pos_y |-> FromInt(2), data |-> <<>>])
    \/ add_object(Box(FromInt(5), FromInt(5), FromInt(0), FromInt(0), FromInt(2), FromInt(1)))
    \/ \E id \in Ids(sources) : update_source(id)
    \/ \E id \in Ids(sources) : remove_source(id)
    \/ \E id \in Ids(objects) : update_object(id)
    \/ \E id \in Ids(objects) : remove_object(id)
    \/ simulate_frame /\ UNCHANGED job
    \/ reset /\ UNCHANGED job
    \/ set_calls = 0 /\ set_dx(FromInt(2), TRUE)
    \/ set_calls = 0 /\ set_dt(FromInt(2))
    \/ set_calls = 0 /\ set_grid_size(<<MaxGrid>>, None)
    \/ set_calls = 0 /\ set_pml_params(None, None, <<2>>)
SpecEngine == Init /\ [][NextEngine]_vars

\* sources, and no sensor, under changes of dt, dx and their own frequency,
\* with one setter call a run
NextSources ==
    \/ \E source \in SineSources : InGrid(source) /\ add_source(source)
    \/ \E id \in Ids(sources), v \in Frequencies : source_frequency_input_changed_cb(id, v)
    \/ \E id \in Ids(sources) : update_source(id)
    \/ \E v \in DtVals : set_calls = 0 /\ set_dt(v)
    \/ \E v \in DxVals, use_auto_dt \in BOOLEAN : set_calls = 0 /\ set_dx(v, use_auto_dt)
    \/ simulate_frame /\ UNCHANGED job
SpecSources == Init /\ [][NextSources]_vars

\* a job stepping the engine while the window's buttons are used
NextJob ==
    \/ \E sensor \in Sensors : InGrid(sensor) /\ add_sensor(sensor)
    \/ simulate_button_clicked_cb
    \/ clear_button_clicked_cb
    \/ simulation_frame_ready_cb
    \/ \E j \in Jobs : job_loop(j)
    \/ \E j \in Jobs : job_wait(j)
    \/ \E j \in Jobs : job_step(j)
    \/ \E j \in Jobs : job_emit(j)
    \/ \E j \in Jobs : job_clear(j)
SpecJob == Init /\ [][NextJob]_vars

Next ==
    NextObjects \/ NextFrames \/ NextResize \/ NextParams \/ NextSetters \/ NextEngine
    \/ NextSources \/ NextJob
Spec == Init /\ [][Next]_vars


(***************************************************************************)
(* Properties of the step on an empty scene and of source injection.       *)
(***************************************************************************)
FieldsZero(e, h1, h2) == AllZero(e) /\ AllZero(h1) /\ AllZero(h2)

\* C1: a simulate_frame call made with Ez, Hx and Hy all zero and no source
\* registered (and no sensor buffer already full) completes without raising
\* and leaves Ez, Hx and Hy all zero, on every grid size.
C1_ZeroFieldsStayZero ==
    [][(/\ last'.op = "simulate_frame"
        /\ sources = <<>>
        /\ sensors = <<>> \/ current_frame < max_time_steps
        /\ FieldsZero(ez, hx, hy))
       => (~last'.raised /\ FieldsZero(ez', hx', hy'))]_vars

\* C2: on an engine with one registered source on which every simulate_frame
\* call since construction or reset advanced the frame counter, the k-th call
\* (k <= max_time_steps) leaves current_frame = k and Ez at the source's cell
\* equal to source.data[k - 1].
C2_SourceSampleInjected ==
    [][(/\ last'.op = "simulate_frame"
        /\ Len(sources) = 1
        /\ current_frame = frame_calls
        /\ frame_calls < max_time_steps)
       => (/\ current_frame' = frame_calls'
           /\ InBounds(ez', SourceCell(sources[1])[1], SourceCell(sources[1])[2])
           /\ At(ez', SourceCell(sources[1])[1], SourceCell(sources[1])[2])
                  = sources[1].data[frame_calls'])]_vars

(***************************************************************************)
(* Properties of reset.                                                    *)
(***************************************************************************)
\* C3: reset leaves Ez, Hx and Hy all zero and current_frame = 0, and Ae and
\* Am hold after it the values they held immediately before it.
C3_ResetKeepsMaterialGrid ==
    [][last'.op = "reset"
       => (/\ FieldsZero(ez', hx', hy')
           /\ current_frame' = 0
           /\ ae' = ae
           /\ am' = am)]_vars

\* C4: reset leaves the object, source and sensor collections unchanged,
\* every source's data and every sensor's recorded data included.
C4_ResetKeepsEntities ==
    [][last'.op = "reset"
       => (objects' = objects /\ sources' = sources /\ sensors' = sensors)]_vars
\* a reset made with a source registered and a sensor holding a recorded sample
C4_Witness ==
    /\ last.op = "reset"
    /\ sources # <<>>
    /\ \E k \in 1..Len(sensors) : \E n \in 1..max_time_steps : sensors[k].data[n] # 0

(***************************************************************************)
(* Properties of the Material Grid.                                        *)
(***************************************************************************)
\* the cells of A inside obj's footprint
Footprint(A, obj) ==
    {cell \in Cells(A) :
        /\ cell[1] >= pos_x_int(obj) /\ cell[1] < pos_x_int(obj) + width_int(obj)
        /\ cell[2] >= pos_y_int(obj) /\ cell[2] < pos_y_int(obj) + height_int(obj)}
\* the registered objects whose footprint holds the cell
Covering(cell) == {k \in 1..Len(objects) : cell \in Footprint(ae, objects[k])}
\* the positions in placed of the registered objects placed on the cell
PlacedOn(cell) ==
    {n \in 1..Len(placed) : \E k \in Covering(cell) : objects[k].id = placed[n]}
\* the registered object most recently placed on the cell
TopObject(cell) ==
    Lookup(objects, placed[CHOOSE n \in PlacedOn(cell) : \A m \in PlacedOn(cell) : m <= n])

\* C5: after any sequence of add_object, update_object, remove_object and
\* reset, a cell in no registered object's footprint holds the background
\* coefficients, and a cell some registered object was placed on holds the
\* coefficients of the registered object most recently placed on it.
C5_LastPlacedObjectWins ==
    edits = 0 =>
        \A cell \in Cells(ae) :
            IF Covering(cell) = {}
            THEN /\ At(ae, cell[1], cell[2]) = BackgroundE(dt, dx)
                 /\ At(am, cell[1], cell[2]) = BackgroundM(dt, dx)
            ELSE PlacedOn(cell) # {} =>
                    /\ At(ae, cell[1], cell[2]) = TopObject(cell).permittivity
                    /\ At(am, cell[1], cell[2]) = TopObject(cell).permeability

\* C6: update_object on a registered object, which erases the object and
\* places it again at the same position and size, leaves Ae and Am as
\* placing the object alone would; so does erase-then-place of any
\* registered object on the grid reached.
C6_EraseThenPlaceIsPlace ==
    [][/\ (last'.op = "update_object" /\ last'.id \in Ids(objects))
          => /\ ae' = PlaceE(ae, Lookup(objects, last'.id))
             /\ am' = PlaceM(am, Lookup(objects, last'.id))
       /\ \A k \in 1..Len(objects') :
             /\ UpdateObjectE(ae', objects'[k], TRUE, dt', dx') = PlaceE(ae', objects'[k])
             /\ UpdateObjectM(am', objects'[k], TRUE, dt', dx') = PlaceM(am', objects'[k])]_vars
\* update_object was called on an object that lies on the grid, on top of
\* cells another registered object covers too
C6_Witness ==
    /\ last.op = "update_object"
    /\ last.id \in Ids(objects)
    /\ Footprint(ae, Lookup(objects, last.id)) # {}
    /\ \A cell \in Footprint(ae, Lookup(objects, last.id)) :
           At(ae, cell[1], cell[2]) = Lookup(objects, last.id).permittivity
    /\ \E cell \in Footprint(ae, Lookup(objects, last.id)) : Cardinality(Covering(cell)) > 1

\* no object's footprint is clipped by an nx x ny grid
Unclipped(objs, nx, ny) ==
    \A k \in 1..Len(objs) :
        /\ pos_x_int(objs[k]) + width_int(objs[k]) <= nx
        /\ pos_y_int(objs[k]) + height_int(objs[k]) <= ny

\* C7: from a grid of size (nx, ny) whose Material Grid is up to date, a
\* set_grid_size to another size, followed by the resize back to (nx, ny)
\* and by placing every registered object again (none clipped), gives Ae and
\* Am equal cell for cell to their values before the first resize.
C7_ResizeRoundTrip ==
    [][(/\ last'.op = "set_grid_size"
        /\ ~last'.raised
        /\ Unclipped(objects, grid_size_x, grid_size_y)
        /\ ae = RebuiltE(grid_size_x, grid_size_y, dt, dx, objects)
        /\ am = RebuiltM(grid_size_x, grid_size_y, dt, dx, objects))
       => (/\ UpdateObjectsE(Resize(ae', grid_size_x, grid_size_y), objects, FALSE, dt, dx) = ae
           /\ UpdateObjectsM(Resize(am', grid_size_x, grid_size_y), objects, FALSE, dt, dx) = am)]_vars

(***************************************************************************)
(* Properties of the PML profile.                                          *)
(***************************************************************************)
\* p[i][j] = p[n-1-i][j] = p[i][n-1-j] on every cell
MirrorSymmetric(A) ==
    \A cell \in Cells(A) :
        /\ At(A, cell[1], cell[2]) = At(A, A.r - 1 - cell[1], cell[2])
        /\ At(A, cell[1], cell[2]) = At(A, cell[1], A.c - 1 - cell[2])

\* C8: on a square n x n grid with layers <= n/2 the generated loss array
\* sigma and the coefficient arrays c and d are mirror-symmetric.
C8_PMLMirrorSymmetric ==
    (/\ grid_size_x = grid_size_y
     /\ 2 * pml_layers <= grid_size_x
     /\ pml_profile = PMLProfile(grid_size_x, grid_size_y, dt, dx,
                                 pml_reflectivity, pml_layers, pml_order))
    => (/\ MirrorSymmetric(pml_profile.data)
        /\ MirrorSymmetric(pml_profile.c)
        /\ MirrorSymmetric(pml_profile.d))

(***************************************************************************)
(* Error handling.                                                         *)
(***************************************************************************)
\* C9: remove_source, remove_object, update_source and update_object called
\* with an id that is not in the corresponding collection raise nothing and
\* leave the whole engine state unchanged.
C9_UnknownIdIsNoOp ==
    [][(\/ last'.op \in {"remove_source", "update_source"} /\ last'.id \notin Ids(sources)
        \/ last'.op \in {"remove_object", "update_object"} /\ last'.id \notin Ids(objects))
       => (~last'.raised /\ UNCHANGED engine)]_vars
\* remove_object was called with an unknown id on an engine that has stepped
\* and holds an object and a source
C9_Witness ==
    /\ last.op = "remove_object"
    /\ last.id \notin Ids(objects)
    /\ objects # <<>>
    /\ sources # <<>>
    /\ current_frame > 0

C11_SensorBufferBounded ==
    [][(last'.op = "simulate_frame" /\ sensors # <<>>)
       => /\ current_frame < max_time_steps
             => /\ ~last'.raised
                /\ \A k \in 1..Len(sensors) :
                      sensors'[k].data[current_frame + 1]
                          = At(ez', SensorCell(sensors[k])[1], SensorCell(sensors[k])[2])
          /\ current_frame = max_time_steps
             => /\ last'.error = "IndexError"
                /\ sensors' = sensors
                /\ current_frame' = current_frame]_vars

(***************************************************************************)
(* Properties of the SimulationJob thread.                                 *)
(***************************************************************************)
\* C12: in every interleaving of a job's thread with the window's calls of
\* notify_frame_processed, the simulate_frame calls the thread has started
\* never exceed the acknowledgments the job received plus one, and every
\* simulate_frame call that returned is followed by exactly one frame_ready
\* (the one of the latest call may still be about to be emitted).
C12_BufferDepthOne ==
    \A j \in Jobs :
        /\ started[j] <= acks[j] + 1
        /\ emitted[j] = IF pc[j] = "emit" THEN completed[j] - 1 ELSE completed[j]
\* a job's thread has made a second step after the acknowledgment of its
\* first and emitted the frame_ready of both
C12_Witness ==
    \E j \in Jobs : started[j] = 2 /\ acks[j] = 1 /\ emitted[j] = 2

\* C13: a simulate_frame call that is in progress on a job's thread after
\* stop() was called runs to completion (it does not raise and the frame
\* counter is incremented), and when the thread of a stopped job has left
\* run() every call it started has emitted its frame_ready.
C13_InFlightStepCompletes ==
    [][\A j \in Jobs :
          /\ (pc[j] = "step" /\ pc'[j] # "step" /\ ~is_running[j])
             => /\ ~last'.raised
                /\ current_frame' = current_frame + 1
                /\ pc'[j] = "emit"
          /\ (pc'[j] \in {"done", "died"} /\ ~is_running'[j])
             => emitted'[j] = started'[j]]_vars

(***************************************************************************)
(* Properties of the frame counter.                                        *)
(***************************************************************************)
Setters == {"set_dx", "set_dt", "set_grid_size", "set_pml_params"}

\* C14: current_frame counts the simulate_frame calls completed since
\* construction or the last reset: a completed call increases it by one, a
\* call that raised leaves it alone, reset sets it to 0 and no setter and
\* no operation on sources, objects or sensors changes it.
C14_FrameCounterCountsSteps ==
    [][/\ last'.op = "simulate_frame"
          => current_frame' = IF last'.raised THEN current_frame ELSE current_frame + 1
       /\ last'.op = "reset" => current_frame' = 0
       /\ last'.op \notin {"simulate_frame", "reset"} => current_frame' = current_frame]_vars
\* a setter was called on an engine that holds a source and has completed
\* one step, which injected the source's sample
C14_Witness ==
    /\ last.op \in Setters
    /\ current_frame = 1
    /\ frame_calls = 1
    /\ sources # <<>>
    /\ \E k \in 1..Len(sources) : At(ez, SourceCell(sources[k])[1], SourceCell(sources[k])[2]) # 0

(***************************************************************************)
(* Frame conditions of the setters.                                        *)
(***************************************************************************)
\* C15: set_pml_params called with an argument that is not None
\* regenerates the PML profile from the new parameters and leaves Ae, Am,
\* every source's data, the time basis, Ez, Hx, Hy, dx, dt, the grid size
\* and the frame counter unchanged.
C15_PMLParamsOnlyProfile ==
    [][last'.op = "set_pml_params"
       => /\ UNCHANGED <<ae, am, sources, time_array, ez, hx, hy, dx, dt,
                         grid_size_x, grid_size_y, current_frame>>
          /\ ~last'.raised
             => pml_profile' = PMLProfile(grid_size_x, grid_size_y, dt, dx,
                                          pml_reflectivity', pml_layers', pml_order')]_vars
\* set_pml_params changed the profile of an engine that has stepped with a
\* source and holds an object that is not placed yet
C15_Witness ==
    /\ last.op = "set_pml_params"
    /\ ~last.raised
    /\ pml_order = 2
    /\ current_frame > 0
    /\ sources # <<>>
    /\ ~AllZero(ez)
    /\ objects # <<>>
    /\ ae # RebuiltE(grid_size_x, grid_size_y, dt, dx, objects)

(***************************************************************************)
(* Properties of the field update.  The reference step is written over the *)
(* arrays as the engine shapes them, (grid_size_x, grid_size_y).           *)
(***************************************************************************)
\* the cells at least one cell away from every edge, and those cells moved
\* one cell further along both axes
Interior(A) == {cell \in Cells(A) : cell[1] \in 1..(A.r - 2) /\ cell[2] \in 1..(A.c - 2)}
Inward(A) == {cell \in Cells(A) : cell[1] \in 2..(A.r - 1) /\ cell[2] \in 2..(A.c - 1)}

\* Hy[i,j] = a*Hy[i,j] + b*Am[i,j]*(Ez[i+1,j] - Ez[i,j]) over the interior
RefHy ==
    [hy EXCEPT !.d = [k \in 1..Len(hy.d) |->
        LET i == (k - 1) \div hy.c
            j == (k - 1) % hy.c
        IN  IF <<i, j>> \in Interior(hy)
            THEN FMul(At(pml_profile.a, i, j), At(hy, i, j))
                 + FMul(FMul(At(pml_profile.b, i, j), At(am, i, j)),
                        At(ez, i + 1, j) - At(ez, i, j))
            ELSE hy.d[k]]]
\* Hx[i,j] = a*Hx[i,j] - b*Am[i,j]*(Ez[i,j+1] - Ez[i,j]) over the interior
RefHx ==
    [hx EXCEPT !.d = [k \in 1..Len(hx.d) |->
        LET i == (k - 1) \div hx.c
            j == (k - 1) % hx.c
        IN  IF <<i, j>> \in Interior(hx)
            THEN FMul(At(pml_profile.a, i, j), At(hx, i, j))
                 - FMul(FMul(At(pml_profile.b, i, j), At(am, i, j)),
                        At(ez, i, j + 1) - At(ez, i, j))
            ELSE hx.d[k]]]
\* Ez[i,j] = c*Ez[i,j] + d*Ae[i,j]*((Hy[i,j] - Hy[i-1,j]) - (Hx[i,j] - Hx[i,j-1]))
\* over the region one cell further inward, reading the H arrays given
RefEz(hxNew, hyNew) ==
    [ez EXCEPT !.d = [k \in 1..Len(ez.d) |->
        LET i == (k - 1) \div ez.c
            j == (k - 1) % ez.c
        IN  IF <<i, j>> \in Inward(ez)
            THEN FMul(At(pml_profile.c, i, j), At(ez, i, j))
                 + FMul(FMul(At(pml_profile.d, i, j), At(ae, i, j)),
                        (At(hyNew, i, j) - At(hyNew, i - 1, j))
                        - (At(hxNew, i, j) - At(hxNew, i, j - 1)))
            ELSE ez.d[k]]]

\* C16: one simulate_frame call (made while the sources' data lasts) is the
\* reference step on every grid size: it raises no shape error, Hy and Hx
\* become the reference values computed from the Ez before the step, and
\* Ez becomes, before the sources are injected into it, the reference
\* value computed from the H arrays written in this step.
C16_StepIsReferenceStep ==
    [][(/\ last'.op = "simulate_frame"
        /\ sources = <<>> \/ current_frame < max_time_steps)
       => /\ last'.error # "ValueError"
          /\ hy' = RefHy
          /\ hx' = RefHx
          /\ ez' = InjectSources(RefEz(RefHx, RefHy), sources, current_frame).ez]_vars

\* the cells on an edge of the grid
Border(A) == Cells(A) \ Interior(A)
\* the cells a source is located at, read along either axis order
SourceCells == {<<pos_x_int(sources[k]), pos_y_int(sources[k])>> : k \in 1..Len(sources)}
                   \cup {SourceCell(sources[k]) : k \in 1..Len(sources)}

C18_SensorSeesSource ==
    [][(/\ last'.op = "simulate_frame"
        /\ ~last'.raised
        /\ Len(sources) = 1)
       => \A m \in 1..Len(sensors) :
             (sensors[m].pos_x = sources[1].pos_x /\ sensors[m].pos_y = sources[1].pos_y)
             => sensors'[m].data[current_frame + 1] = sources[1].data[current_frame + 1]]_vars

(***************************************************************************)
(* Properties of placing objects.                                          *)
(***************************************************************************)
\* C19: placing a registered object (update_object) leaves every cell of
\* its footprint clipped to the grid at Ae = dt/(dx*permittivity) and
\* Am = dt/(dx*permeability) of the engine's dt and dx, and every cell
\* outside the footprint unchanged.
C19_PlaceWritesCoefficients ==
    [][(last'.op = "update_object" /\ last'.id \in Ids(objects))
       => \A cell \in Cells(ae) :
             IF cell \in Footprint(ae, Lookup(objects, last'.id))
             THEN /\ At(ae', cell[1], cell[2])
                        = FDiv(dt, FMul(dx, Lookup(objects, last'.id).permittivity))
                  /\ At(am', cell[1], cell[2])
                        = FDiv(dt, FMul(dx, Lookup(objects, last'.id).permeability))
             ELSE /\ At(ae', cell[1], cell[2]) = At(ae, cell[1], cell[2])
                  /\ At(am', cell[1], cell[2]) = At(am, cell[1], cell[2])]_vars

\* C20: when update_object(id) is called right after an inspector edit of a
\* placed object (its position, size or material), every cell that no
\* registered object covers after the call, the cells the object vacated
\* among them, holds the background coefficients.
C20_NoGhostCoefficients ==
    [][(/\ last.op = "object_input_changed_cb"
        /\ last'.op = "update_object"
        /\ last'.id = last.id
        /\ \E n \in 1..Len(placed) : placed[n] = last.id)
       => \A cell \in Cells(ae') :
             (\A k \in 1..Len(objects') : cell \notin Footprint(ae', objects'[k]))
             => /\ At(ae', cell[1], cell[2]) = BackgroundE(dt', dx')
                /\ At(am', cell[1], cell[2]) = BackgroundM(dt', dx')]_vars

(***************************************************************************)
(* Properties of the setters: what they recompute.                         *)
(***************************************************************************)
\* the registered objects whose footprint holds the cell, after the call
CoveringAfter(cell) == {k \in 1..Len(objects') : cell \in Footprint(ae', objects'[k])}
\* the last registered of them: re-placing in registration order leaves it on top
LastCovering(cell) == objects'[CHOOSE k \in CoveringAfter(cell) : \A m \in CoveringAfter(cell) : m <= k]

\* C21: after set_dt(v) or set_dx(v, use_auto_dt) completes, every cell of
\* the Material Grid that no registered object covers holds dt/(dx*EPS_0)
\* in Ae and dt/(dx*MU_0) in Am of the engine's dt and dx after the call
\* (an auto-derived dt included), and every registered object has been
\* re-placed with the coefficients of that dt and dx.
C21_StepChangeRebuildsMaterialGrid ==
    [][(last'.op \in {"set_dt", "set_dx"} /\ ~last'.raised /\ ~last'.invalid)
       => /\ placed' = PlacedAll(objects')
          /\ \A cell \in Cells(ae') :
                IF CoveringAfter(cell) = {}
                THEN /\ At(ae', cell[1], cell[2]) = BackgroundE(dt', dx')
                     /\ At(am', cell[1], cell[2]) = BackgroundM(dt', dx')
                ELSE /\ At(ae', cell[1], cell[2])
                           = FDiv(dt', FMul(dx', LastCovering(cell).permittivity))
                     /\ At(am', cell[1], cell[2])
                           = FDiv(dt', FMul(dx', LastCovering(cell).permeability))]_vars

\* C22: after any sequence of set_dx, set_dt, set_grid_size and
\* set_pml_params the PML profile the engine holds is the profile generated
\* from its current grid size, dx, dt, reflectivity, layers and order: it is
\* not one of a stale dt or a stale grid size, and its arrays have the
\* current grid shape.
C22_PMLProfileCurrent ==
    PMLOk(grid_size_x, grid_size_y, dx, pml_reflectivity, pml_layers, pml_order)
    => pml_profile = PMLProfile(grid_size_x, grid_size_y, dt, dx,
                                pml_reflectivity, pml_layers, pml_order)

(***************************************************************************)
(* Properties of set_grid_size.                                            *)
(***************************************************************************)
Shape(A) == <<A.r, A.c>>

\* C23: after set_grid_size(x, y) with positive x and y, the five arrays
\* Ez, Hx, Hy, Ae and Am all have shape (x, y).
C23_ResizeShapesAllArrays ==
    [][(last'.op = "set_grid_size" /\ ~last'.invalid)
       => \A A \in {ez', hx', hy', ae', am'} : Shape(A) = <<grid_size_x', grid_size_y'>>]_vars

\* C24: set_grid_size preserves cell contents by index: in every resized
\* array a cell inside both the old and the new bounds keeps its value, also
\* when the second dimension changes, and a cell outside the old bounds is 0.
C24_ResizeKeepsCellsByIndex ==
    [][(last'.op = "set_grid_size" /\ ~last'.invalid)
       => \A pair \in {<<hx, hx'>>, <<hy, hy'>>, <<ae, ae'>>, <<am, am'>>} :
             \A cell \in Cells(pair[2]) :
                At(pair[2], cell[1], cell[2])
                    = IF InBounds(pair[1], cell[1], cell[2])
                      THEN At(pair[1], cell[1], cell[2]) ELSE 0]_vars

(***************************************************************************)
(* Properties of the pending Material Grid update.                         *)
(***************************************************************************)
\* C25: a Material Grid update requested by add_object(obj) or
\* set_grid_size is applied before the next simulated frame: the
\* simulate_frame() that follows the request reads an Ae and Am whose
\* background is recomputed for the current grid and on which every
\* registered object, obj included, is placed.
C25_PendingUpdateAppliedBeforeStep ==
    [][(/\ last.op \in {"add_object", "set_grid_size"}
        /\ ~last.raised
        /\ needs_allowance_arrays_update
        /\ last'.op = "simulate_frame")
       => /\ ae = RebuiltE(grid_size_x, grid_size_y, dt, dx, objects)
          /\ am = RebuiltM(grid_size_x, grid_size_y, dt, dx, objects)]_vars

(***************************************************************************)
(* Properties of the sources' data series.                                 *)
(***************************************************************************)
\* every source of srcs holds its waveform over the time basis times
DataCurrent(srcs, times) ==
    \A k \in 1..Len(srcs) : srcs[k].data = CalculateData(srcs[k], times).data

InStep(j) == pc[j] = "step"
\* the thread of job j has passed the loop test and will call simulate_frame
StepToStart(j) == pc[j] = "wait" /\ previous_frame_processed_event[j]

\* C27: no engine mutator runs while a step runs and no two steps run at
\* once: when the clear button's reset() executes, and when a worker's
\* simulate_frame() executes, no simulate_frame() of another (stopped)
\* worker is in progress or still to be started.
C27_StepsAndMutatorsSerialized ==
    [][/\ last'.op = "reset" => \A j \in Jobs : ~InStep(j) /\ ~StepToStart(j)
       /\ \A j \in Jobs :
             (last'.op = "simulate_frame" /\ pc[j] = "step" /\ pc'[j] # "step")
             => \A i \in Jobs \ {j} : ~InStep(i) /\ ~StepToStart(i)]_vars

\* C28: while stop() is never called and the window acknowledges every
\* frame_ready once, no acknowledgment is lost: once every frame the worker
\* emitted is acknowledged and the worker is back at its wait, the event is
\* set, so the worker steps again and does not wait forever on a frame that
\* is already acknowledged.
C28_NoAcknowledgmentLost ==
    \A j \in Jobs :
        (/\ simulation_job = j
         /\ is_running[j]
         /\ \A i \in Jobs \ {j} : pc[i] = "none"
         /\ pc[j] \in {"loop", "wait"}
         /\ frame_ready_queue = 0
         /\ acks[j] = emitted[j])
        => previous_frame_processed_event[j]

(***************************************************************************)
(* Properties of a step that fails on a frame index.                       *)
(***************************************************************************)
\* C29: when simulate_frame() fails with an out-of-range frame index (the
\* source read or the sensor write), the frame counter is unchanged but Hy
\* and Hx hold the stencil's result of that step and so does Ez outside the
\* sources' cells: the failed step is not rolled back.
C29_FailedStepNotRolledBack ==
    [][(last'.op = "simulate_frame" /\ last'.error = "IndexError")
       => /\ current_frame' = current_frame
          /\ hy' = AssignStep(hy, 1, grid_size_y - 1, 1, grid_size_x - 1,
                              HyValue(hy, ez, am, pml_profile, grid_size_x, grid_size_y)).a
          /\ hx' = AssignStep(hx, 1, grid_size_y - 1, 1, grid_size_x - 1,
                              HxValue(hx, ez, am, pml_profile, grid_size_x, grid_size_y)).a
          /\ \E ezS \in {AssignStep(ez, 2, grid_size_y, 2, grid_size_x,
                                    EzValue(ez, hx', hy', ae, pml_profile,
                                            grid_size_x, grid_size_y)).a} :
                \A cell \in Cells(ez) \ {SourceCell(sources[k]) : k \in 1..Len(sources)} :
                   At(ez', cell[1], cell[2]) = At(ezS, cell[1], cell[2])]_vars
\* the third call failed on the frame index after two completed steps, and
\* the fields it leaves are not the fields a rollback to zero H would leave
C29_Witness ==
    /\ last.op = "simulate_frame"
    /\ last.error = "IndexError"
    /\ frame_calls = 3
    /\ current_frame = max_time_steps
    /\ sources # <<>>
    /\ ~AllZero(hx)
    /\ ~AllZero(hy)
    /\ hy # AssignStep(Zeros(grid_size_x, grid_size_y), 1, grid_size_y - 1, 1, grid_size_x - 1,
                       HyValue(Zeros(grid_size_x, grid_size_y), ez, am, pml_profile,
                               grid_size_x, grid_size_y)).a

====
